---------------------------- MODULE Spec2Model ----------------------------
(***************************************************************************)
(* The indexed object store of glass (src/glass/src/backends/redis.rs) and *)
(* the Mod field mapper (src/glass/src/objects/rainfusion.rs).             *)
(*                                                                         *)
(* The backing engine is Redis.  One record type ("mods") is modelled:     *)
(*   index : the sorted set stored at "mods-index", member -> score        *)
(*   bags  : the hashes stored at "mods:<id>", per id a field -> payload   *)
(*           map; a hash with no field does not exist in Redis.            *)
(* and, about the calls made,                                              *)
(*   last  : the call just made, with its result                           *)
(*   order   : the identifiers inserted so far, first to last, where every *)
(*             insert uses an identifier of its own                       *)
(*   record  : the Mod record a caller flattens and inserts                *)
(*   unflat  : the Mod record built from what retrieve returned            *)
(*   callers : per concurrent caller, the call it is in and the commands   *)
(*             of its pipeline the server has not executed yet             *)
(*   pages   : the results of page(1), page(2), ... asked since the store  *)
(*             was last changed                                            *)
(* A payload is a string, written as the sequence of its tokens.           *)
(***************************************************************************)
EXTENDS Integers, Sequences, FiniteSets, TLC

VARIABLES index, bags, last, order, record, unflat, callers, pages

vars == <<index, bags, last, order, record, unflat, callers, pages>>

--------------------------------------------------------------------------
(* Identifiers.                                                            *)

\* Identifiers the callers use: 0..MaxUuid, 0 being the all-zero identifier.
MaxUuid == 1

\* Length of Uuid::to_simple().to_string(): 32 hex digits, no hyphens.
SimpleLen == 32

Uuids == 0..MaxUuid

\* Identifiers of the insertion-order runs: 0..OrdMaxUuid.
OrdMaxUuid == 2

OrdUuids == 0..OrdMaxUuid

\* Identifiers of the paging runs: 1..PageMaxUuid, one more than a page
\* holds.
PageMaxUuid == 9

PageUuids == 1..PageMaxUuid

\* Every identifier of the model.
AllUuids == Uuids \cup OrdUuids \cup PageUuids

\* Uuid::nil()
Nil == 0

HexChars == <<"0", "1", "2", "3", "4", "5", "6", "7",
              "8", "9", "a", "b", "c", "d", "e", "f">>

\* The n low hex digits of u, most significant first, lowercase.
RECURSIVE HexString(_, _)
HexString(u, n) ==
    IF n = 0 THEN "" ELSE HexString(u \div 16, n - 1) \o HexChars[(u % 16) + 1]

\* The rendering of every identifier of the model.
SimpleOf == [u \in AllUuids |-> HexString(u, SimpleLen)]

\* uuid.to_simple().to_string(): 32 hex digits, no hyphens.
ToSimple(u) == SimpleOf[u]

\* Uuid::parse_str of a member of the index: every string the store puts
\* there is the rendering of an identifier, and parses back to it.
ParseOk(s) == \E u \in AllUuids : SimpleOf[u] = s
ParseStr(s) == CHOOSE u \in AllUuids : SimpleOf[u] = s

Members == {ToSimple(u) : u \in Uuids}

--------------------------------------------------------------------------
(* The Redis commands the store issues.                                    *)

\* Byte-wise order of two members: both are 32 lowercase hex digits, so
\* it is the order of the numbers they render.
LexLess(a, b) == ParseStr(a) < ParseStr(b)

ZCARD(z) == Cardinality(DOMAIN z)

\* ZADD that leaves a member the set already holds as it is (ZADD NX).
ZADDKeepsScore(z, score, member) ==
    [m \in DOMAIN z \cup {member} |-> IF m \in DOMAIN z THEN z[m] ELSE score]

\* A ZADD that puts the member in the place of the entries of its score.
ZADDByRank(z, score, member) ==
    [m \in {n \in DOMAIN z : z[n] # score} \cup {member} |->
        IF m = member THEN score ELSE z[m]]

\* A ZADD that ranks the member behind the entries the set holds now.
ZADDNextRank(z, score, member) ==
    [m \in DOMAIN z \cup {member} |-> IF m = member THEN ZCARD(z) + 1 ELSE z[m]]

\* ZADD key score member: adds the member, or sets the score of a member
\* the set already holds.
ZADD(z, score, member) ==
    [m \in DOMAIN z \cup {member} |-> IF m = member THEN score ELSE z[m]]

\* A ZREM that empties the set.
ZREMAll(z, member) == [m \in {} |-> 0]

ZREM(z, member) == [m \in DOMAIN z \ {member} |-> z[m]]

\* A ZINCRBY that sets the score to the increment.
ZINCRBYSets(z, increment, member) == ZADD(z, increment, member)

\* ZINCRBY key increment member: a member the set lacks is added with the
\* increment as its score.
ZINCRBY(z, increment, member) ==
    ZADD(z, (IF member \in DOMAIN z THEN z[member] ELSE 0) + increment, member)

\* Sorted-set order: ascending score, equal scores by member bytes.
ZBefore(z, a, b) == z[a] < z[b] \/ (z[a] = z[b] /\ LexLess(a, b))

ZRank(z, m) == Cardinality({n \in DOMAIN z : ZBefore(z, n, m)})

ZSorted(z) == [i \in 1..ZCARD(z) |-> CHOOSE m \in DOMAIN z : ZRank(z, m) = i - 1]

\* ZRANGE key start stop: zero-based inclusive offsets, negative ones
\* counting from the end.
ZRANGE(z, start, stop) ==
    LET n  == ZCARD(z)
        s0 == IF start < 0 THEN start + n ELSE start
        e0 == IF stop < 0 THEN stop + n ELSE stop
        s  == IF s0 < 0 THEN 0 ELSE s0
        e  == IF e0 >= n THEN n - 1 ELSE e0
    IN  IF s > e \/ s >= n THEN <<>> ELSE SubSeq(ZSorted(z), s + 1, e + 1)

\* A write that replaces the whole hash by the one field.
HSETReplaces(h, key, f, v) == [h EXCEPT ![key] = [g \in {f} |-> v]]

\* HSET key field value
HSET(h, key, f, v) ==
    [h EXCEPT ![key] = [g \in DOMAIN h[key] \cup {f} |-> IF g = f THEN v ELSE h[key][g]]]

HDEL(h, key, f) ==
    [h EXCEPT ![key] = [g \in DOMAIN h[key] \ {f} |-> h[key][g]]]

\* HGET key field: the payload, or the nil reply.
HGET(h, key, f) ==
    IF f \in DOMAIN h[key] THEN [nil |-> FALSE, data |-> h[key][f]]
    ELSE [nil |-> TRUE, data |-> <<>>]

EmptyBag == [g \in {} |-> <<>>]


--------------------------------------------------------------------------
(* Strings and the JSON text serde_json writes and reads.                  *)
(* A string is the sequence of its tokens; Q is the double quote and BS    *)
(* the backslash, the two tokens a JSON string literal escapes.            *)

Q == "\""

BS == "\\"

None == [some |-> FALSE, v |-> <<>>]
Some(x) == [some |-> TRUE, v |-> x]

Ok(x) == [ok |-> TRUE, val |-> x]
Err == [ok |-> FALSE, val |-> <<>>]

\* x shifted right by k hex digits.
RECURSIVE ShiftRight(_, _)
ShiftRight(x, k) == IF k = 0 THEN x ELSE ShiftRight(x \div 16, k - 1)

\* Uuid's Serialize for a human-readable format: the hyphenated string,
\* groups of 8, 4, 4, 4 and 12 hex digits.
HyphenatedOf ==
    [u \in AllUuids |->
        HexString(ShiftRight(u, 24), 8) \o "-" \o HexString(ShiftRight(u, 20), 4)
          \o "-" \o HexString(ShiftRight(u, 16), 4) \o "-"
          \o HexString(ShiftRight(u, 12), 4) \o "-" \o HexString(u, 12)]

Hyphenated(u) == <<HyphenatedOf[u]>>

\* Uuid's Deserialize from a string: Uuid::parse_str.
HyphenatedOk(s) == Len(s) = 1 /\ \E u \in AllUuids : HyphenatedOf[u] = s[1]
HyphenatedValue(s) == CHOOSE u \in AllUuids : HyphenatedOf[u] = s[1]

\* A string literal that writes its content as it is, escaping nothing.
JsonStringRaw(s) == <<Q>> \o s \o <<Q>>

\* The content of a string literal: a quote or a backslash is written
\* behind a backslash.
RECURSIVE Escape(_)
Escape(s) ==
    IF s = <<>> THEN <<>>
    ELSE (IF Head(s) \in {Q, BS} THEN <<BS, Head(s)>> ELSE <<Head(s)>>)
           \o Escape(Tail(s))

\* serde_json's string literal.
JsonString(s) == <<Q>> \o Escape(s) \o <<Q>>

\* Reads the content of a string literal from token j on, up to the closing
\* quote: a backslash takes the quote or backslash behind it as content.
RECURSIVE ScanString(_, _, _)
ScanString(t, j, acc) ==
    IF j > Len(t) THEN [ok |-> FALSE, val |-> <<>>, next |-> j]
    ELSE IF t[j] = Q THEN [ok |-> TRUE, val |-> acc, next |-> j + 1]
    ELSE IF t[j] = BS
         THEN IF j + 1 > Len(t) \/ t[j + 1] \notin {Q, BS}
              THEN [ok |-> FALSE, val |-> <<>>, next |-> j]
              ELSE ScanString(t, j + 2, Append(acc, t[j + 1]))
    ELSE ScanString(t, j + 1, Append(acc, t[j]))

\* Reads the string literal that starts at token i: its content and the
\* position after the closing quote.
ReadString(t, i) ==
    IF i > Len(t) \/ t[i] # Q THEN [ok |-> FALSE, val |-> <<>>, next |-> i]
    ELSE ScanString(t, i + 1, <<>>)

\* Expects the tokens lit at position i.
ReadLit(t, i, lit) ==
    i + Len(lit) - 1 <= Len(t) /\ SubSeq(t, i, i + Len(lit) - 1) = lit

RECURSIVE JoinComma(_)
JoinComma(parts) ==
    IF parts = <<>> THEN <<>>
    ELSE IF Len(parts) = 1 THEN parts[1]
    ELSE parts[1] \o <<",">> \o JoinComma(Tail(parts))

JsonArray(parts) == <<"[">> \o JoinComma(parts) \o <<"]">>

\* serde_json::to_string(&Option<Vec<String>>)
TagsToString(tags) ==
    IF ~ tags.some THEN <<"null">>
    ELSE JsonArray([i \in 1..Len(tags.v) |-> JsonString(tags.v[i])])

\* The elements of a JSON array of strings from position i (after "[" or
\* after a comma) to the closing "]", which must end the text.
RECURSIVE ReadStrings(_, _, _)
ReadStrings(t, i, acc) ==
    LET r == ReadString(t, i)
    IN  IF ~ r.ok THEN Err
        ELSE IF ReadLit(t, r.next, <<"]">>) /\ r.next = Len(t)
             THEN Ok(Append(acc, r.val))
        ELSE IF ReadLit(t, r.next, <<",">>)
             THEN ReadStrings(t, r.next + 1, Append(acc, r.val))
        ELSE Err

\* serde_json::from_str::<Vec<String>>
StringToTags(t) ==
    IF t = <<"[", "]">> THEN Ok(<<>>)
    ELSE IF ReadLit(t, 1, <<"[">>) THEN ReadStrings(t, 2, <<>>)
    ELSE Err

\* One (Uuid, ModDependency) pair as serde_json writes it.
DepToString(d) ==
    <<"[">> \o JsonString(Hyphenated(d[1])) \o <<",", "{">>
      \o JsonString(<<"name">>) \o <<":">> \o JsonString(d[2].name) \o <<",">>
      \o JsonString(<<"summary">>) \o <<":">> \o JsonString(d[2].summary) \o <<",">>
      \o JsonString(<<"version">>) \o <<":">> \o JsonString(d[2].version)
      \o <<"}", "]">>

\* json::objects_to_string over (Uuid, ModDependency) pairs.
objects_to_string(objects) ==
    JsonArray([i \in 1..Len(objects) |-> DepToString(objects[i])])

\* Reads one (Uuid, ModDependency) pair that starts at position i.
ReadDep(t, i) ==
    LET bad == [ok |-> FALSE, val |-> <<>>, next |-> i]
        u  == ReadString(t, i + 1)
        k1 == ReadString(t, u.next + 2)
        v1 == ReadString(t, k1.next + 1)
        k2 == ReadString(t, v1.next + 1)
        v2 == ReadString(t, k2.next + 1)
        k3 == ReadString(t, v2.next + 1)
        v3 == ReadString(t, k3.next + 1)
    IN  IF ~ ReadLit(t, i, <<"[">>) \/ ~ u.ok \/ ~ HyphenatedOk(u.val) THEN bad
        ELSE IF ~ ReadLit(t, u.next, <<",", "{">>) THEN bad
        ELSE IF ~ k1.ok \/ k1.val # <<"name">> \/ ~ ReadLit(t, k1.next, <<":">>)
                \/ ~ v1.ok \/ ~ ReadLit(t, v1.next, <<",">>) THEN bad
        ELSE IF ~ k2.ok \/ k2.val # <<"summary">> \/ ~ ReadLit(t, k2.next, <<":">>)
                \/ ~ v2.ok \/ ~ ReadLit(t, v2.next, <<",">>) THEN bad
        ELSE IF ~ k3.ok \/ k3.val # <<"version">> \/ ~ ReadLit(t, k3.next, <<":">>)
                \/ ~ v3.ok \/ ~ ReadLit(t, v3.next, <<"}", "]">>) THEN bad
        ELSE [ok |-> TRUE,
              val |-> <<HyphenatedValue(u.val),
                        [name |-> v1.val, summary |-> v2.val, version |-> v3.val]>>,
              next |-> v3.next + 2]

RECURSIVE ReadDeps(_, _, _)
ReadDeps(t, i, acc) ==
    LET r == ReadDep(t, i)
    IN  IF ~ r.ok THEN Err
        ELSE IF ReadLit(t, r.next, <<"]">>) /\ r.next = Len(t)
             THEN Ok(Append(acc, r.val))
        ELSE IF ReadLit(t, r.next, <<",">>)
             THEN ReadDeps(t, r.next + 1, Append(acc, r.val))
        ELSE Err

\* json::string_to_objects into Vec<(Uuid, ModDependency)>.
string_to_objects(t) ==
    IF t = <<"[", "]">> THEN Ok(<<>>)
    ELSE IF ReadLit(t, 1, <<"[">>) THEN ReadDeps(t, 2, <<>>)
    ELSE Err

--------------------------------------------------------------------------
(* The Mod record and its field mapper.                                    *)

\* Mod::fields(), generated by derive(Indexable): the field names of the
\* struct in declaration order.
Fields == <<"name", "author", "img_url", "summary", "description", "version",
            "item_type", "dependencies", "tags">>

\* The item type written as the name of its variant.
ModTypeName(item) == <<item>>

\* impl From<ModType> for String
ModTypeToString(item) == IF item = "Mod" THEN <<"mod">> ELSE <<"lib">>

\* impl From<String> for ModType
StringToModType(string) ==
    IF string = <<"mod">> THEN "Mod"
    ELSE IF string = <<"lib">> THEN "Library"
    ELSE "Mod"

\* The closure collapse_string of From<Mod>.
collapse_string(x) == IF x.some THEN x.v ELSE <<"N/A">>

\* impl From<Mod> for Vec<(String, String)>
FromMod(object) ==
    << <<"name", collapse_string(object.name)>>,
       <<"author", collapse_string(object.author)>>,
       <<"img_url", collapse_string(object.img_url)>>,
       <<"summary", collapse_string(object.summary)>>,
       <<"description", collapse_string(object.description)>>,
       <<"version", collapse_string(object.version)>>,
       <<"item_type", ModTypeToString(object.item_type)>>,
       <<"dependencies",
         objects_to_string(IF object.dependencies.some
                           THEN object.dependencies.v ELSE <<>>)>>,
       <<"tags", TagsToString(object.tags)>> >>

\* values.get(i) of From<Vec<(String, String)>>, i counted from 0.
ValuesGet(values, i) == IF i + 1 <= Len(values) THEN Some(values[i + 1]) ELSE None

ResultToOption(r) == IF r.ok THEN Some(r.val) ELSE None

\* impl From<Vec<(String, String)>> for Mod.  The payloads are taken by
\* position; values[6], values[7] and values[8] panic on a shorter list.
ToMod(field_map) ==
    LET values == [i \in 1..Len(field_map) |-> field_map[i][2]]
    IN  IF Len(values) < 9 THEN [panic |-> TRUE, mod |-> <<>>]
        ELSE [panic |-> FALSE,
              mod |-> [name |-> ValuesGet(values, 0),
                       author |-> ValuesGet(values, 1),
                       img_url |-> ValuesGet(values, 2),
                       summary |-> ValuesGet(values, 3),
                       description |-> ValuesGet(values, 4),
                       version |-> ValuesGet(values, 5),
                       item_type |-> StringToModType(values[7]),
                       dependencies |-> ResultToOption(string_to_objects(values[8])),
                       tags |-> ResultToOption(StringToTags(values[9]))]]

--------------------------------------------------------------------------
(* Commands, pipelines and the store's operations.                         *)

\* A store is the sorted set and the hashes together.
Store(z, h) == [index |-> z, bags |-> h]

Cmd(c, member, score, f, v) ==
    [cmd |-> c, member |-> member, score |-> score, field |-> f, value |-> v]

\* The effect of one command on the store.
Exec(st, c) ==
    CASE c.cmd = "ZADD" -> Store(ZADD(st.index, c.score, c.member), st.bags)
      [] c.cmd = "ZREM" -> Store(ZREM(st.index, c.member), st.bags)
      [] c.cmd = "HSET" -> Store(st.index, HSET(st.bags, c.member, c.field, c.value))
      [] c.cmd = "HDEL" -> Store(st.index, HDEL(st.bags, c.member, c.field))
      [] OTHER -> st

\* The reply to one command; only the replies to HGET are read.
Reply(st, c) ==
    IF c.cmd = "HGET" THEN HGET(st.bags, c.member, c.field)
    ELSE [nil |-> FALSE, data |-> <<>>]

\* pipeline.query: the commands applied in the order they were added.
RECURSIVE RunPipeline(_, _)
RunPipeline(st, cmds) ==
    IF cmds = <<>> THEN st ELSE RunPipeline(Exec(st, Head(cmds)), Tail(cmds))

\* An insert pipeline that writes the fields before the ordering entry.
InsertPipelineFieldsFirst(count, field_map, gen_key) ==
    [i \in 1..Len(field_map) |->
        Cmd("HSET", ToSimple(gen_key), 0, field_map[i][1], field_map[i][2])]
      \o <<Cmd("ZADD", ToSimple(gen_key), count + 1, "", <<>>)>>

\* An insert pipeline that ranks the entry with the count itself.
InsertPipelineAtCount(count, field_map, gen_key) ==
    <<Cmd("ZADD", ToSimple(gen_key), count, "", <<>>)>>
      \o [i \in 1..Len(field_map) |->
            Cmd("HSET", ToSimple(gen_key), 0, field_map[i][1], field_map[i][2])]

\* The pipeline insert_object_into_database builds: ZADD with score
\* count + 1, then one HSET per item of the field map.
InsertPipeline(count, field_map, gen_key) ==
    <<Cmd("ZADD", ToSimple(gen_key), count + 1, "", <<>>)>>
      \o [i \in 1..Len(field_map) |->
            Cmd("HSET", ToSimple(gen_key), 0, field_map[i][1], field_map[i][2])]

\* The pipeline remove_object_from_database builds: one HDEL per name of
\* the field list it is given.
RemovePipeline(field_map, uuid) ==
    [i \in 1..Len(field_map) |-> Cmd("HDEL", ToSimple(uuid), 0, field_map[i], <<>>)]

\* The pipeline edit_object_from_database builds.
EditPipeline(field_map, uuid) ==
    [i \in 1..Len(field_map) |->
        Cmd("HSET", ToSimple(uuid), 0, field_map[i][1], field_map[i][2])]

\* The pipeline retrieve_object_from_database builds.
RetrievePipeline(field_map, uuid) ==
    [i \in 1..Len(field_map) |-> Cmd("HGET", ToSimple(uuid), 0, field_map[i], <<>>)]

\* An insert that writes under the nil identifier whatever gen_key is.
InsertStoreNil(st, field_map, gen_key) ==
    RunPipeline(st, InsertPipeline(ZCARD(st.index), field_map, Nil))

\* insert_object_into_database after gen_key is resolved: ZCARD, then the
\* pipeline.
InsertStore(st, field_map, gen_key) ==
    RunPipeline(st, InsertPipeline(ZCARD(st.index), field_map, gen_key))

\* A remove that deletes the fields and leaves the ordering entry.
RemoveStoreKeepsEntry(st, field_map, uuid) ==
    RunPipeline(st, RemovePipeline(field_map, uuid))

\* remove_object_from_database: ZREM, then the pipeline of HDELs.
RemoveStore(st, field_map, uuid) ==
    RunPipeline(Exec(st, Cmd("ZREM", ToSimple(uuid), 0, "", <<>>)),
                RemovePipeline(field_map, uuid))

\* edit_object_from_database
EditStore(st, field_map, uuid) == RunPipeline(st, EditPipeline(field_map, uuid))

\* let output: Vec<T> = pipeline.query(connection)? with T = String, the
\* payload type of Mod's field map: a nil reply has no String conversion,
\* so one absent field fails the whole read.
QueryStrings(st, cmds) ==
    LET replies == [i \in 1..Len(cmds) |-> Reply(st, cmds[i])]
    IN  IF \E i \in 1..Len(cmds) : replies[i].nil THEN Err
        ELSE Ok([i \in 1..Len(cmds) |-> replies[i].data])

\* retrieve_object_from_database: the HGET pipeline, then each name merged
\* with the value at its position.
RetrieveResult(st, field_map, uuid) ==
    LET output == QueryStrings(st, RetrievePipeline(field_map, uuid))
    IN  IF ~ output.ok THEN Err
        ELSE Ok([i \in 1..Len(field_map) |-> <<field_map[i], output.val[i]>>])

\* A first that reads the second entry of the index.
FirstResultSecond(st) ==
    LET output == ZRANGE(st.index, 1, 1)
    IN  IF output = <<>> THEN Ok(Nil)
        ELSE IF ParseOk(output[1]) THEN Ok(ParseStr(output[1])) ELSE Err

\* grab_first_object
FirstResult(st) ==
    LET output == ZRANGE(st.index, 0, 0)
    IN  IF output = <<>> THEN Ok(Nil)
        ELSE IF ParseOk(output[1]) THEN Ok(ParseStr(output[1])) ELSE Err

\* grab_last_object
LastResult(st) ==
    LET output == ZRANGE(st.index, -1, -1)
    IN  IF output = <<>> THEN Ok(Nil)
        ELSE IF ParseOk(output[1]) THEN Ok(ParseStr(output[1])) ELSE Err

\* Entries per page: the 8 of the ZRANGE window.
PageSize == 8

\* The end-of-list entry request_group_of_objects pushes.
Sentinel == <<Nil, <<>>>>

\* The loop of request_group_of_objects over the ZRANGE output: each id is
\* parsed and retrieved, and followed by the sentinel when it is the id
\* grab_last_object returns; the first error ends the call.
RECURSIVE PageLoop(_, _, _, _)
PageLoop(st, field_map, output, vector) ==
    IF output = <<>> THEN Ok(vector)
    ELSE IF ~ ParseOk(Head(output)) THEN Err
    ELSE LET uuid   == ParseStr(Head(output))
             object == RetrieveResult(st, field_map, uuid)
             pushed == Append(vector, <<uuid, object.val>>)
             lst    == LastResult(st)
         IN  IF ~ object.ok \/ ~ lst.ok THEN Err
             ELSE PageLoop(st, field_map, Tail(output),
                           IF uuid = lst.val THEN Append(pushed, Sentinel)
                           ELSE pushed)

\* request_group_of_objects on a store no other caller changes meanwhile.
PageResult(st, field_map, amount) ==
    PageLoop(st, field_map,
             ZRANGE(st.index, PageSize * (amount - 1), (PageSize * amount) - 1),
             <<>>)

\* current_object_count
CountResult(st) == Ok(ZCARD(st.index))

\* object_score: ZSCORE read as i32; the nil reply for a member the set
\* lacks has no integer conversion.
ScoreResult(st, uuid) ==
    IF ToSimple(uuid) \in DOMAIN st.index THEN Ok(st.index[ToSimple(uuid)]) ELSE Err

\* change_object_score: ZINCRBY, reply dropped.
ChangeScoreStore(st, increment, uuid) ==
    Store(ZINCRBY(st.index, increment, ToSimple(uuid)), st.bags)

--------------------------------------------------------------------------
(* Inputs of the callers.                                                  *)

\* generic_mod() of the tests, its dependency under an identifier of the
\* model.
GenericMod ==
    [name |-> Some(<<"Example Mod">>),
     author |-> Some(<<"Example Author">>),
     img_url |-> Some(<<"localhost">>),
     summary |-> Some(<<"Example Summary">>),
     description |-> Some(<<"Example Description">>),
     version |-> Some(<<"0.0.1">>),
     item_type |-> "Mod",
     dependencies |-> Some(<< <<1, [name |-> <<"Example Dependency">>,
                                    summary |-> <<"Example Summary">>,
                                    version |-> <<"0.0.1">>]>> >>),
     tags |-> Some(<< <<"test">>, <<"test2">>>>)]

\* Mod::default()
DefaultMod ==
    [name |-> None, author |-> None, img_url |-> None, summary |-> None,
     description |-> None, version |-> None, item_type |-> "Mod",
     dependencies |-> None, tags |-> None]

\* Field maps handed to insert: the flattened default record.
InsertMaps == {FromMod(DefaultMod)}

\* Changes handed to edit: one declared field, and a field outside the
\* declared list named twice.
EditMaps == {<< <<"extra", <<"x">>>>, <<"name", <<"y">>>>, <<"extra", <<"y">>>> >>}

\* Largest score change_object_score is driven to.
MaxScore == 2

Increments == {-1, 1}

PageAmounts == {0, 1, 2}

--------------------------------------------------------------------------
(* One caller: every call runs to its end before the next one starts.      *)
(* last records the call just made and what it returned.                   *)

\* Option<Uuid>::None
NoUuid == [some |-> FALSE, v |-> Nil]

Current == Store(index, bags)

\* The record of a call.  Besides the call and its result it keeps what the
\* store was before the call: count0, the cardinality of the index; had,
\* whether uuid was in the index; follows, for a remove, whether the call
\* before it was an insert of the same uuid.
Call(op, uuid, given, arg, result) ==
    [op |-> op, uuid |-> uuid, given |-> given, arg |-> arg, result |-> result,
     count0 |-> ZCARD(index),
     had |-> ToSimple(uuid) \in DOMAIN index,
     follows |-> op = "remove" /\ last.op = "insert" /\ last.uuid = uuid]

NoCall ==
    [op |-> "none", uuid |-> Nil, given |-> TRUE, arg |-> <<>>, result |-> Ok(<<>>),
     count0 |-> 0, had |-> FALSE, follows |-> FALSE]

EmptyIndex == [m \in {} |-> 0]

\* No record built yet.
NoMod == [done |-> FALSE, panic |-> FALSE, mod |-> DefaultMod]

\* Number of concurrent callers.
MaxProcs == 2

Procs == 1..MaxProcs

\* A caller that is in no call.
Idle == [op |-> "idle", uuid |-> Nil, map |-> <<>>, pend |-> <<>>]

\* What the calls of one caller leave alone.
seqFrame == <<order, record, unflat, callers, pages>>

Init ==
    /\ index = EmptyIndex
    /\ bags = [k \in Members |-> EmptyBag]
    /\ last = NoCall
    /\ order = <<>>
    /\ record = DefaultMod
    /\ unflat = NoMod
    /\ callers = [p \in Procs |-> Idle]
    /\ pages = <<>>

\* insert_object_into_database: uuid is Some(k) or None; Uuid::new_v4()
\* yields any identifier but the nil one.
insert_object_into_database(field_map, uuid) ==
    \E gen_key \in (IF uuid.some THEN {uuid.v} ELSE Uuids \ {Nil}) :
        LET st == InsertStore(Current, field_map, gen_key)
        IN  /\ index' = st.index
            /\ bags' = st.bags
            /\ last' = Call("insert", gen_key, uuid.some, field_map, Ok(gen_key))

remove_object_from_database(field_map, uuid) ==
    LET st == RemoveStore(Current, field_map, uuid)
    IN  /\ index' = st.index
        /\ bags' = st.bags
        /\ last' = Call("remove", uuid, TRUE, field_map, Ok(<<>>))

edit_object_from_database(field_map, uuid) ==
    LET st == EditStore(Current, field_map, uuid)
    IN  /\ index' = st.index
        /\ bags' = st.bags
        /\ last' = Call("edit", uuid, TRUE, field_map, Ok(<<>>))

retrieve_object_from_database(field_map, uuid) ==
    /\ last' = Call("retrieve", uuid, TRUE, field_map,
                    RetrieveResult(Current, field_map, uuid))
    /\ UNCHANGED <<index, bags>>

request_group_of_objects(field_map, amount) ==
    /\ last' = Call("page", Nil, TRUE, amount, PageResult(Current, field_map, amount))
    /\ UNCHANGED <<index, bags>>

current_object_count ==
    /\ last' = Call("count", Nil, TRUE, <<>>, CountResult(Current))
    /\ UNCHANGED <<index, bags>>

object_score(uuid) ==
    /\ last' = Call("score", uuid, TRUE, <<>>, ScoreResult(Current, uuid))
    /\ UNCHANGED <<index, bags>>

change_object_score(increment, uuid) ==
    LET st == ChangeScoreStore(Current, increment, uuid)
    IN  /\ st.index[ToSimple(uuid)] \in 0..MaxScore
        /\ index' = st.index
        /\ bags' = st.bags
        /\ last' = Call("change_score", uuid, TRUE, increment, Ok(<<>>))

grab_first_object ==
    /\ last' = Call("first", Nil, TRUE, <<>>, FirstResult(Current))
    /\ UNCHANGED <<index, bags>>

grab_last_object ==
    /\ last' = Call("last", Nil, TRUE, <<>>, LastResult(Current))
    /\ UNCHANGED <<index, bags>>

Insert ==
    \E field_map \in InsertMaps, uuid \in {NoUuid} \cup {Some(k) : k \in Uuids} :
        insert_object_into_database(field_map, uuid) /\ UNCHANGED seqFrame

Remove ==
    \E uuid \in Uuids : remove_object_from_database(Fields, uuid) /\ UNCHANGED seqFrame

Edit ==
    \E field_map \in EditMaps, uuid \in Uuids :
        edit_object_from_database(field_map, uuid) /\ UNCHANGED seqFrame

Retrieve ==
    \E uuid \in Uuids : retrieve_object_from_database(Fields, uuid) /\ UNCHANGED seqFrame

Count == current_object_count /\ UNCHANGED seqFrame

\* The calls that create, change, read and count records.
Next ==
    \/ Insert
    \/ Remove
    \/ Edit
    \/ Retrieve
    \/ Count

Spec == Init /\ [][Next]_vars

--------------------------------------------------------------------------
(* Properties of the calls of one caller (Spec).                           *)

HasBag(u) == DOMAIN bags[ToSimple(u)] # {}

InIndex(u) == ToSimple(u) \in DOMAIN index

\* C1: in every reachable state an identifier has a non-empty field-bag if
\* and only if it has an entry in the ordering index (no orphan bag, no
\* orphan index entry).
C1_NoOrphans == \A u \in Uuids : HasBag(u) <=> InIndex(u)

\* C3 as stated: insert(record, id) followed by remove(id) leaves count()
\* at its value before the insert, whether or not id was in the index.
C3_InsertRemoveRestoresCount ==
    [][(last.op = "insert" /\ last'.op = "remove" /\ last'.uuid = last.uuid)
          => ZCARD(index') = last.count0]_vars

\* C3 amended: insert(record, id) followed by remove(id) leaves count() at
\* its value before the insert when id was not in the index then, and one
\* below that value when it was.
C3_InsertRemoveCount ==
    [][(last.op = "insert" /\ last'.op = "remove" /\ last'.uuid = last.uuid)
          => /\ ~ InIndex(last.uuid)'
             /\ ZCARD(index') = last.count0 - (IF last.had THEN 1 ELSE 0)]_vars

\* A remove has just undone an insert of an identifier that was in the
\* index before that insert.
C3_Witness ==
    /\ last.op = "remove"
    /\ last.follows
    /\ last.count0 > ZCARD(index)
    /\ \E u \in Uuids : InIndex(u)

\* C5 as stated: an insert under an identifier that is already in the index
\* leaves the rank of the existing entry unchanged and adds one more entry,
\* so count() grows by 1 on every insert.
C5_DuplicateInsertAddsEntry ==
    [][last'.op = "insert"
          => /\ ZCARD(index') = ZCARD(index) + 1
             /\ InIndex(last'.uuid)
                   => index'[ToSimple(last'.uuid)] = index[ToSimple(last'.uuid)]]_vars

\* C5 amended: an insert under an identifier that is already in the index
\* keeps the one entry of that identifier, sets its rank to count() + 1 and
\* leaves count() unchanged; count() grows by 1 only when the identifier
\* was not in the index.  No other entry changes.
C5_DuplicateInsertRescores ==
    [][last'.op = "insert"
          => LET m == ToSimple(last'.uuid)
             IN  /\ DOMAIN index' = DOMAIN index \cup {m}
                 /\ index'[m] = ZCARD(index) + 1
                 /\ ZCARD(index') = ZCARD(index) + (IF m \in DOMAIN index THEN 0 ELSE 1)
                 /\ \A n \in DOMAIN index \ {m} : index'[n] = index[n]]_vars

\* An insert has just been made under an identifier that was in the index,
\* with a rank other than the one the insert writes.
C5_Witness ==
    /\ last.op = "insert"
    /\ last.had
    /\ ZCARD(index) = last.count0
    /\ index[ToSimple(last.uuid)] = last.count0 + 1

\* C7: after remove(id) of a stored record the field-bag of id has no field
\* left, whatever fields it held before.
C7_RemoveEmptiesBag == (last.op = "remove" /\ last.had) => ~ HasBag(last.uuid)

\* C8: retrieve(id) for an identifier with no field-bag returns success
\* with an empty list of (field_name, payload) pairs.
C8_RetrieveAbsentIsEmpty ==
    (last.op = "retrieve" /\ ~ HasBag(last.uuid)) => last.result = Ok(<<>>)

\* The fields a list of changes names.
Named(changes) == {changes[i][1] : i \in 1..Len(changes)}

\* C9: edit(id, changes) on an existing record sets each field named in
\* changes to its new payload (the last one listed for that field) and
\* leaves unchanged every other field of that bag, every other bag, and the
\* ordering index: the entry of id, its rank and count().
C9_EditFrame ==
    [][(last'.op = "edit" /\ InIndex(last'.uuid) /\ HasBag(last'.uuid))
          => LET k  == ToSimple(last'.uuid)
                 fm == last'.arg
             IN  /\ DOMAIN bags'[k] = DOMAIN bags[k] \cup Named(fm)
                 /\ \A i \in 1..Len(fm) :
                       (\A j \in (i + 1)..Len(fm) : fm[j][1] # fm[i][1])
                          => bags'[k][fm[i][1]] = fm[i][2]
                 /\ \A f \in DOMAIN bags[k] \ Named(fm) : bags'[k][f] = bags[k][f]
                 /\ \A n \in DOMAIN bags \ {k} : bags'[n] = bags[n]
                 /\ index' = index]_vars

\* An edit has just changed a record that is in the index and holds
\* fields the changes do not name.
C9_Witness ==
    /\ last.op = "edit"
    /\ InIndex(last.uuid)
    /\ DOMAIN bags[ToSimple(last.uuid)] \ Named(last.arg) # {}
    /\ \A f \in Named(last.arg) : f \in DOMAIN bags[ToSimple(last.uuid)]

\* The ordering entry and the fields of field_map are held under key.
WrittenUnder(ix, bg, field_map, key) ==
    /\ key \in DOMAIN ix
    /\ \A i \in 1..Len(field_map) :
          HGET(bg, key, field_map[i][1]) = [nil |-> FALSE, data |-> field_map[i][2]]

\* C18: insert(record, Some(id)) returns id and leaves the ordering entry
\* and the fields of record under the rendering of id, which is 32
\* characters long and parses back to id; insert(record, None) returns the
\* identifier under whose rendering it left both.
C18_InsertHonoursId ==
    [][\A field_map \in InsertMaps :
          /\ \A id \in Uuids :
                insert_object_into_database(field_map, Some(id)) =>
                    /\ last'.result = Ok(id)
                    /\ Len(ToSimple(id)) = SimpleLen
                    /\ ParseStr(ToSimple(id)) = id
                    /\ WrittenUnder(index', bags', field_map, ToSimple(id))
          /\ insert_object_into_database(field_map, NoUuid) =>
                    /\ last'.result.ok
                    /\ last'.result.val \in Uuids \ {Nil}
                    /\ WrittenUnder(index', bags', field_map,
                                    ToSimple(last'.result.val))]_vars

\* An insert under a supplied identifier other than the nil one has
\* returned, with another identifier stored beside it.
C18_Witness ==
    /\ last.op = "insert"
    /\ last.given
    /\ last.uuid # Nil
    /\ InIndex(last.uuid)
    /\ InIndex(Nil)

--------------------------------------------------------------------------
(* Insertion order (SpecOrd): one caller inserts and removes, every insert *)
(* under an identifier not inserted before; order lists them as inserted.  *)

InitOrd ==
    /\ index = EmptyIndex
    /\ bags = [k \in {ToSimple(u) : u \in OrdUuids} |-> EmptyBag]
    /\ last = NoCall
    /\ order = <<>>
    /\ record = DefaultMod
    /\ unflat = NoMod
    /\ callers = [p \in Procs |-> Idle]
    /\ pages = <<>>

OrdInsert ==
    \E uuid \in OrdUuids :
        /\ \A i \in 1..Len(order) : order[i] # uuid
        /\ insert_object_into_database(FromMod(DefaultMod), Some(uuid))
        /\ order' = Append(order, uuid)
        /\ UNCHANGED <<record, unflat, callers, pages>>

OrdRemove ==
    \E uuid \in OrdUuids :
        remove_object_from_database(Fields, uuid) /\ UNCHANGED seqFrame

NextOrd == OrdInsert \/ OrdRemove

SpecOrd == InitOrd /\ [][NextOrd]_vars

\* C4: after any sequence of insert and remove calls with distinct
\* identifiers, any two identifiers of the index have different ranks and
\* the one inserted later has the strictly larger rank.
C4_RanksFollowInsertion ==
    \A i, j \in 1..Len(order) :
        (i < j /\ InIndex(order[i]) /\ InIndex(order[j]))
           => index[ToSimple(order[i])] < index[ToSimple(order[j])]

--------------------------------------------------------------------------
(* A record through the store and back (SpecMod): a caller flattens a Mod, *)
(* inserts it into an empty store, retrieves it with Mod::fields() and     *)
(* builds a Mod from the result, as test_redis_object does.                *)

OptStrings == {None, Some(<<"Example Mod">>)}

\* The dependency of generic_mod().
ExampleDep ==
    <<1, [name |-> <<"Example Dependency">>, summary |-> <<"Example Summary">>,
          version |-> <<"0.0.1">>]>>

\* The records tried: optional fields absent and present, both item types,
\* no, an empty and a one-element dependency list, no, an empty and a
\* two-element tag list; and generic_mod() itself.
Mods ==
    [name : OptStrings, author : {None}, img_url : {None}, summary : {None},
     description : {None}, version : OptStrings, item_type : {"Mod", "Library"},
     dependencies : {None, Some(<<>>), Some(<<ExampleDep>>)},
     tags : {None, Some(<<>>), Some(<< <<"test">>, <<"test2">> >>)}]
      \cup {GenericMod}

InitMod ==
    /\ index = EmptyIndex
    /\ bags = [k \in Members |-> EmptyBag]
    /\ last = NoCall
    /\ order = <<>>
    /\ record \in Mods
    /\ unflat = NoMod
    /\ callers = [p \in Procs |-> Idle]
    /\ pages = <<>>

\* insert_object_into_database(&conn, record.clone().into(), "mods", Some(uuid))
ModInsert ==
    \E uuid \in Uuids :
        /\ last.op = "none"
        /\ insert_object_into_database(FromMod(record), Some(uuid))
        /\ UNCHANGED seqFrame

\* retrieve_object_from_database(&conn, "mods", Mod::fields(), uuid)
ModRetrieve ==
    /\ last.op = "insert"
    /\ retrieve_object_from_database(Fields, last.uuid)
    /\ UNCHANGED seqFrame

\* Mod::from(result)
ModFrom ==
    /\ last.op = "retrieve"
    /\ last.result.ok
    /\ ~ unflat.done
    /\ unflat' = [done |-> TRUE,
                  panic |-> ToMod(last.result.val).panic,
                  mod |-> ToMod(last.result.val).mod]
    /\ UNCHANGED <<index, bags, last, order, record, callers, pages>>

NextMod == ModInsert \/ ModRetrieve \/ ModFrom

SpecMod == InitMod /\ [][NextMod]_vars

\* C2: after insert(flatten(r), id) into a store with no bag for id,
\* retrieve(id) with Mod::fields() succeeds and unflatten yields a record
\* equal to r, but for an item type normalised to the default variant.
C2_InsertRetrieveRoundTrip ==
    /\ (last.op = "retrieve" => last.result.ok)
    /\ unflat.done =>
          /\ ~ unflat.panic
          /\ \A f \in DOMAIN record \ {"item_type"} : unflat.mod[f] = record[f]
          /\ unflat.mod.item_type \in {record.item_type, "Mod"}

\* The fields of Mod of an Option type.
OptionalFields == {f \in DOMAIN DefaultMod : f # "item_type"}

\* C13: once a record is inserted, the field-bag holds no key for an
\* optional field the record lacks, and the record read back has None for
\* that field.
C13_AbsentFieldWritesNoKey ==
    \A f \in OptionalFields :
        ~ record[f].some =>
            /\ last.op \in {"insert", "retrieve"} =>
                   f \notin DOMAIN bags[ToSimple(last.uuid)]
            /\ unflat.done => ~ unflat.mod[f].some

--------------------------------------------------------------------------
(* Concurrent callers (SpecC).  A call is a sequence of round trips to the *)
(* server: insert reads ZCARD and then sends its pipeline, remove sends    *)
(* ZREM and then its pipeline.  The pipelines are plain ones               *)
(* (redis::Pipeline::new(), no MULTI/EXEC), so the server executes their   *)
(* commands one by one and may serve other callers in between.             *)

\* Number of fields of the maps the concurrent callers use.
ConFields == 2

\* The first fields of the flattened default record, and their names.
ConMap == SubSeq(FromMod(DefaultMod), 1, ConFields)
ConNames == SubSeq(Fields, 1, ConFields)

\* insert_object_into_database up to pipeline.query: gen_key resolved, ZCARD
\* read, the pipeline built.
ConInsertCall(p) ==
    \E uuid \in Uuids :
        /\ callers[p].op = "idle"
        /\ callers' = [callers EXCEPT ![p] =
                          [op |-> "insert", uuid |-> uuid, map |-> ConMap,
                           pend |-> InsertPipeline(ZCARD(index), ConMap, uuid)]]
        /\ UNCHANGED <<index, bags, last, order, record, unflat, pages>>

\* remove_object_from_database up to pipeline.query: ZREM executed, the
\* pipeline of HDELs built.
ConRemoveCall(p) ==
    \E uuid \in Uuids :
        /\ callers[p].op = "idle"
        /\ index' = ZREM(index, ToSimple(uuid))
        /\ callers' = [callers EXCEPT ![p] =
                          [op |-> "remove", uuid |-> uuid, map |-> ConNames,
                           pend |-> RemovePipeline(ConNames, uuid)]]
        /\ UNCHANGED <<bags, last, order, record, unflat, pages>>

\* The server executes the next command of p's pipeline.
ConServe(p) ==
    /\ callers[p].pend # <<>>
    /\ LET st == Exec(Current, Head(callers[p].pend))
       IN  /\ index' = st.index
           /\ bags' = st.bags
    /\ callers' = [callers EXCEPT ![p].pend = Tail(@)]
    /\ UNCHANGED <<last, order, record, unflat, pages>>

\* pipeline.query returns and the call ends.
ConReturn(p) ==
    /\ callers[p].op # "idle"
    /\ callers[p].pend = <<>>
    /\ callers' = [callers EXCEPT ![p] = Idle]
    /\ UNCHANGED <<index, bags, last, order, record, unflat, pages>>

ConInsert == \E p \in Procs : ConInsertCall(p)
ConRemove == \E p \in Procs : ConRemoveCall(p)
ConServes == \E p \in Procs : ConServe(p)
ConReturns == \E p \in Procs : ConReturn(p)

NextC == ConInsert \/ ConRemove \/ ConServes \/ ConReturns

SpecC == Init /\ [][NextC]_vars

\* What another caller would read of p's call at this point.
HalfInserted(p) ==
    /\ callers[p].op = "insert"
    /\ InIndex(callers[p].uuid)
    /\ \E i \in 1..Len(callers[p].map) :
          callers[p].map[i][1] \notin DOMAIN bags[ToSimple(callers[p].uuid)]

HalfRemoved(p) ==
    /\ callers[p].op = "remove"
    /\ ~ InIndex(callers[p].uuid)
    /\ HasBag(callers[p].uuid)

\* C6: while callers run concurrently, the store is never in a state where
\* an insert or a remove in progress is half applied: the identifier in the
\* index with inserted fields missing from its bag, or the identifier gone
\* from the index with fields left in its bag.
C6_NoHalfApplied == \A p \in Procs : ~ HalfInserted(p) /\ ~ HalfRemoved(p)

--------------------------------------------------------------------------
(* Paging (SpecPage): one caller fills the store, each insert under the    *)
(* next identifier, and then asks for page 1, 2, ... in turn.              *)

\* Field maps handed to insert: the flattened default record, and a map
\* that names one declared field only.
PageMaps == {FromMod(DefaultMod), << <<"name", <<"y">>>> >>}

InitPage ==
    /\ index = EmptyIndex
    /\ bags = [k \in {ToSimple(u) : u \in PageUuids} |-> EmptyBag]
    /\ last = NoCall
    /\ order = <<>>
    /\ record = DefaultMod
    /\ unflat = NoMod
    /\ callers = [p \in Procs |-> Idle]
    /\ pages = <<>>

PageInsert ==
    \E field_map \in PageMaps :
        /\ ZCARD(index) + 1 \in PageUuids
        /\ insert_object_into_database(field_map, Some(ZCARD(index) + 1))
        /\ pages' = <<>>
        /\ UNCHANGED <<order, record, unflat, callers>>

\* The next page, up to one page past the end of the index.
PageNext ==
    /\ pages = <<>> \/ PageSize * (Len(pages) - 1) < ZCARD(index)
    /\ request_group_of_objects(Fields, Len(pages) + 1)
    /\ pages' = Append(pages, PageResult(Current, Fields, Len(pages) + 1))
    /\ UNCHANGED <<order, record, unflat, callers>>

NextPage == PageInsert \/ PageNext

SpecPage == InitPage /\ [][NextPage]_vars

\* The entries of the pages in turn.
RECURSIVE Concat(_)
Concat(results) ==
    IF results = <<>> THEN <<>> ELSE Head(results).val \o Concat(Tail(results))

DropSentinels(entries) == SelectSeq(entries, LAMBDA e : e # Sentinel)

\* Every identifier of the index in the order of range(0,-1), with the
\* field-bag retrieve returns for it.
AllObjects ==
    LET ids == ZRANGE(index, 0, -1)
    IN  [i \in 1..Len(ids) |->
            <<ParseStr(ids[i]), RetrieveResult(Current, Fields, ParseStr(ids[i])).val>>]

\* C10: in a store not changed between the calls, for every k with
\* 8 * k >= count(), page(1), ..., page(k) all succeed and their entries in
\* turn, sentinels dropped, are the identifiers of the index in the order of
\* range(0,-1), each once and each with its retrieved field-bag.
C10_PagesCoverIndex ==
    (pages # <<>> /\ PageSize * Len(pages) >= ZCARD(index)) =>
        /\ \A i \in 1..Len(pages) : pages[i].ok
        /\ DropSentinels(Concat(pages)) = AllObjects

\* The identifiers page(n) ranges over: ranks 8 * (n - 1) to 8 * n - 1.
Window(n) == ZRANGE(index, PageSize * (n - 1), (PageSize * n) - 1)

\* The window of page(n) holds the identifier range(-1,-1) returns.
HoldsLast(n) ==
    /\ ZCARD(index) > 0
    /\ \E i \in 1..Len(Window(n)) : Window(n)[i] = ZRANGE(index, -1, -1)[1]

SentinelCount(entries) == Len(SelectSeq(entries, LAMBDA e : e = Sentinel))

\* C11: in a store not changed during the call, page(n) for n >= 1 succeeds
\* and holds the sentinel exactly when its window holds the last identifier
\* of the index, then once and as the final entry; otherwise (empty index,
\* window past the end included) it holds no sentinel.
C11_SentinelMarksLastPage ==
    \A n \in 1..Len(pages) :
        /\ pages[n].ok
        /\ IF HoldsLast(n)
           THEN /\ SentinelCount(pages[n].val) = 1
                /\ pages[n].val[Len(pages[n].val)] = Sentinel
           ELSE SentinelCount(pages[n].val) = 0

--------------------------------------------------------------------------
(* Failing round trips (SpecFail): one caller inserts and removes, and the *)
(* connection may break at any point of a call.  A round trip that fails   *)
(* makes the call return the error through `?`; the commands the server    *)
(* has executed by then stay executed, the others never run.               *)

\* The caller of the runs with failures.
FailCaller == 1

FailInsertCall == ConInsertCall(FailCaller)

FailRemoveCall == ConRemoveCall(FailCaller)

FailServe == ConServe(FailCaller)

\* Every round trip succeeded: the call returns Ok.
FailReturn ==
    /\ callers[FailCaller].op # "idle"
    /\ callers[FailCaller].pend = <<>>
    /\ last' = Call(callers[FailCaller].op, callers[FailCaller].uuid, TRUE,
                    callers[FailCaller].map, Ok(<<>>))
    /\ callers' = [callers EXCEPT ![FailCaller] = Idle]
    /\ UNCHANGED <<index, bags, order, record, unflat, pages>>

\* The connection breaks during a call, after its first round trip was
\* executed: the call returns Err.
FailBreak ==
    /\ callers[FailCaller].op # "idle"
    /\ last' = Call(callers[FailCaller].op, callers[FailCaller].uuid, TRUE,
                    callers[FailCaller].map, Err)
    /\ callers' = [callers EXCEPT ![FailCaller] = Idle]
    /\ UNCHANGED <<index, bags, order, record, unflat, pages>>

\* The first round trip of a call (ZCARD of insert, ZREM of remove) fails
\* before the server executes it: the call returns Err.
FailConnect ==
    \E op \in {"insert", "remove"}, uuid \in Uuids :
        /\ callers[FailCaller].op = "idle"
        /\ last' = Call(op, uuid, TRUE, <<>>, Err)
        /\ UNCHANGED <<index, bags, order, record, unflat, callers, pages>>

NextFail ==
    \/ FailInsertCall
    \/ FailRemoveCall
    \/ FailServe
    \/ FailReturn
    \/ FailBreak
    \/ FailConnect

SpecFail == Init /\ [][NextFail]_vars

\* C12: when insert or remove has returned an error because a round trip
\* failed, the identifier's ordering entry and field-bag are paired: both
\* exist or neither does.
C12_FailureKeepsPairing ==
    (callers[FailCaller].op = "idle" /\ last.op \in {"insert", "remove"}
       /\ ~ last.result.ok)
        => (InIndex(last.uuid) <=> HasBag(last.uuid))

--------------------------------------------------------------------------
(* The field mapper alone (SpecFlat): a Mod is flattened into its field    *)
(* list and a Mod is built from a field list, no store in between.         *)

\* A string with the tokens JSON gives a meaning to.
SpecialString == <<"a", Q, ",", BS, "]">>

\* A dependency whose strings need escaping.
SpecialDep ==
    <<2, [name |-> SpecialString, summary |-> <<>>, version |-> <<"0.0.1">>]>>

\* The records flattened: optional strings absent, plain and special, both
\* item types, dependency and tag lists absent, empty and filled.
FlatMods ==
    [name : {None, Some(<<"Example Mod">>), Some(SpecialString)},
     author : {None, Some(<<"Example Author">>)},
     img_url : {Some(<<"localhost">>)},
     summary : {Some(<<"Example Summary">>)},
     description : {Some(<<"Example Description">>)},
     version : {None, Some(<<"0.0.1">>)},
     item_type : {"Mod", "Library"},
     dependencies : {None, Some(<<>>), Some(<<ExampleDep>>),
                     Some(<<ExampleDep, SpecialDep>>)},
     tags : {None, Some(<<>>), Some(<< <<"test">>, <<"test2">> >>),
             Some(<<SpecialString>>)}]

InitFlat ==
    /\ index = EmptyIndex
    /\ bags = [k \in Members |-> EmptyBag]
    /\ last = NoCall
    /\ order = <<>>
    /\ record \in FlatMods
    /\ unflat = NoMod
    /\ callers = [p \in Procs |-> Idle]
    /\ pages = <<>>

\* let field_map: Vec<(String, String)> = record.into();
\* last.result holds the field list in hand; last.arg the list it was made
\* from and the field or position that was changed.
FlatInto ==
    /\ last.op = "none"
    /\ last' = Call("flatten", Nil, TRUE, [list |-> FromMod(record), field |-> ""],
                    Ok(FromMod(record)))
    /\ UNCHANGED <<index, bags, order, record, unflat, callers, pages>>

\* The fields whose payload is JSON text.
ComplexFields == {"dependencies", "tags"}

\* Payloads serde_json rejects for a list: the empty text, an array left
\* open, null, an array with an open string literal, an object.
Malformed == {<<>>, <<"[">>, <<"null">>, <<"[", Q, "x", "]">>, <<"{", "}">>}

\* field_map with the payload of field f replaced.
WithPayload(field_map, f, payload) ==
    [i \in 1..Len(field_map) |->
        IF field_map[i][1] = f THEN <<f, payload>> ELSE field_map[i]]

\* field_map without the pair of field f.
WithoutField(field_map, f) == SelectSeq(field_map, LAMBDA pair : pair[1] # f)

\* field_map with the pairs at positions i and j exchanged.
Swapped(field_map, i, j) ==
    [k \in 1..Len(field_map) |->
        IF k = i THEN field_map[j] ELSE IF k = j THEN field_map[i] ELSE field_map[k]]

\* The caller hands over a list with a malformed payload of a JSON field.
FlatCorrupt ==
    \E f \in ComplexFields, payload \in Malformed :
        /\ last.op = "flatten"
        /\ ~ unflat.done
        /\ last' = Call("corrupt", Nil, TRUE, [list |-> last.result.val, field |-> f],
                        Ok(WithPayload(last.result.val, f, payload)))
        /\ UNCHANGED <<index, bags, order, record, unflat, callers, pages>>

\* The caller hands over a list that lacks the pair of a JSON field.
FlatDrop ==
    \E f \in ComplexFields :
        /\ last.op = "flatten"
        /\ ~ unflat.done
        /\ last' = Call("drop", Nil, TRUE, [list |-> last.result.val, field |-> f],
                        Ok(WithoutField(last.result.val, f)))
        /\ UNCHANGED <<index, bags, order, record, unflat, callers, pages>>

\* The caller hands over the same pairs in another order.
FlatSwap ==
    \E i, j \in 1..Len(Fields) :
        /\ i < j
        /\ last.op = "flatten"
        /\ ~ unflat.done
        /\ last' = Call("swap", Nil, TRUE, [list |-> last.result.val, field |-> ""],
                        Ok(Swapped(last.result.val, i, j)))
        /\ UNCHANGED <<index, bags, order, record, unflat, callers, pages>>

\* Mod::from(field_map)
FlatFrom ==
    /\ last.op # "none"
    /\ ~ unflat.done
    /\ unflat' = [done |-> TRUE,
                  panic |-> ToMod(last.result.val).panic,
                  mod |-> ToMod(last.result.val).mod]
    /\ UNCHANGED <<index, bags, last, order, record, callers, pages>>

NextFlat == FlatInto \/ FlatCorrupt \/ FlatDrop \/ FlatSwap \/ FlatFrom

SpecFlat == InitFlat /\ [][NextFlat]_vars

AllPresent == \A f \in OptionalFields : record[f].some

\* C14: for a Mod whose optional fields are all present, of either item
\* type, the Mod built from its flattened field list equals it.
C14_UnflattenFlatten ==
    (unflat.done /\ last.op = "flatten" /\ AllPresent) =>
        /\ ~ unflat.panic
        /\ unflat.mod = record

C14_Witness ==
    /\ unflat.done
    /\ last.op = "flatten"
    /\ AllPresent
    /\ record.item_type = "Library"
    /\ record.name = Some(SpecialString)
    /\ Len(record.dependencies.v) = 2
    /\ record.tags = Some(<<SpecialString>>)

\* C15: a Mod is built without failure from a field list whose
\* dependencies or tags payload is malformed or missing: that field is None
\* and every other field is what its own payload gives.
C15_BadComplexFieldIsNone ==
    (unflat.done /\ last.op \in {"corrupt", "drop"}) =>
        /\ ~ unflat.panic
        /\ unflat.mod[last.arg.field] = None
        /\ \A g \in DOMAIN DefaultMod \ {last.arg.field} :
              unflat.mod[g] = ToMod(last.arg.list).mod[g]

\* C16: a Mod built from the pairs of a field list in another order is the
\* Mod built from the list itself.
C16_UnflattenByName ==
    (unflat.done /\ last.op = "swap") =>
        /\ ~ unflat.panic
        /\ unflat.mod = ToMod(last.arg.list).mod

--------------------------------------------------------------------------
(* (Uuid, Mod) pairs as JSON text: json::object_to_string and              *)
(* json::string_to_object with the Serialize and Deserialize of Mod.       *)

\* Option<String> as serde_json writes it.
OptStringToJson(x) == IF x.some THEN JsonString(x.v) ELSE <<"null">>

\* The derived Serialize of ModType: a unit variant is written as the
\* string of its name.
ModTypeToJson(item) == JsonString(IF item = "Mod" THEN <<"Mod">> ELSE <<"Library">>)

\* Option<Vec<(Uuid, ModDependency)>> as serde_json writes it.
OptDepsToJson(d) == IF d.some THEN objects_to_string(d.v) ELSE <<"null">>

\* One member of a JSON object.
Member(k, v) == JsonString(<<k>>) \o <<":">> \o v

\* The derived Serialize of Mod: every field in declaration order.
ModToJson(m) ==
    <<"{">>
      \o JoinComma(<< Member("name", OptStringToJson(m.name)),
                      Member("author", OptStringToJson(m.author)),
                      Member("img_url", OptStringToJson(m.img_url)),
                      Member("summary", OptStringToJson(m.summary)),
                      Member("description", OptStringToJson(m.description)),
                      Member("version", OptStringToJson(m.version)),
                      Member("item_type", ModTypeToJson(m.item_type)),
                      Member("dependencies", OptDepsToJson(m.dependencies)),
                      Member("tags", TagsToString(m.tags)) >>)
      \o <<"}">>

\* json::object_to_string: the pair as a two-element array.
object_to_string(object) ==
    <<"[">> \o JsonString(Hyphenated(object[1])) \o <<",">>
      \o ModToJson(object[2]) \o <<"]">>

\* json::objects_to_string over (Uuid, Mod) pairs.
mods_to_string(objects) ==
    JsonArray([i \in 1..Len(objects) |-> object_to_string(objects[i])])

\* The position after the bracket that closes depth open ones, from
\* token j on; 0 when the text ends first.  String literals are passed
\* over whole.
RECURSIVE SkipNested(_, _, _)
SkipNested(t, j, depth) ==
    IF j > Len(t) THEN 0
    ELSE IF t[j] = Q
         THEN IF ReadString(t, j).ok
              THEN SkipNested(t, ReadString(t, j).next, depth)
              ELSE 0
    ELSE IF t[j] \in {"[", "{"} THEN SkipNested(t, j + 1, depth + 1)
    ELSE IF t[j] \in {"]", "}"}
         THEN IF depth = 1 THEN j + 1 ELSE SkipNested(t, j + 1, depth - 1)
    ELSE SkipNested(t, j + 1, depth)

\* The position after the JSON value that starts at token i; 0 when there
\* is none.
ValueEnd(t, i) ==
    IF i > Len(t) THEN 0
    ELSE IF t[i] = Q THEN (IF ReadString(t, i).ok THEN ReadString(t, i).next ELSE 0)
    ELSE IF t[i] = "null" THEN i + 1
    ELSE IF t[i] \in {"[", "{"} THEN SkipNested(t, i + 1, 1)
    ELSE 0

\* The one element of a set of one element.
The(S) == CHOOSE x \in S : TRUE

\* The member whose key starts at token i: its key, its value text and the
\* position after the value.
MemberAt(t, i) ==
    The({IF ~ k.ok \/ ~ ReadLit(t, k.next, <<":">>) \/ ValueEnd(t, k.next + 1) = 0
         THEN [ok |-> FALSE, key |-> <<>>, text |-> <<>>, next |-> i]
         ELSE [ok |-> TRUE, key |-> k.val,
               text |-> SubSeq(t, k.next + 1, ValueEnd(t, k.next + 1) - 1),
               next |-> ValueEnd(t, k.next + 1)]
         : k \in {ReadString(t, i)}})

\* The members of a JSON object from the key at token i to the closing
\* brace: pairs of key and value text.
RECURSIVE ReadMembers(_, _, _)
ReadMembers(t, i, acc) ==
    The({IF ~ m.ok THEN [ok |-> FALSE, val |-> <<>>, next |-> i]
         ELSE IF ReadLit(t, m.next, <<"}">>)
              THEN [ok |-> TRUE, val |-> Append(acc, <<m.key, m.text>>),
                    next |-> m.next + 1]
         ELSE IF ReadLit(t, m.next, <<",">>)
              THEN ReadMembers(t, m.next + 1, Append(acc, <<m.key, m.text>>))
         ELSE [ok |-> FALSE, val |-> <<>>, next |-> i]
         : m \in {MemberAt(t, i)}})

\* The members that carry the key f.
MemberValues(ms, f) == SelectSeq(ms, LAMBDA pair : pair[1] = <<f>>)

\* The value text of field f; an Option field that has no member is read
\* as null.
FieldText(ms, f) ==
    IF MemberValues(ms, f) = <<>> THEN <<"null">> ELSE MemberValues(ms, f)[1][2]

\* Deserialize of Option<String>.
StringToOptString(v) ==
    IF v = <<"null">> THEN Ok(None)
    ELSE IF ReadString(v, 1).ok /\ ReadString(v, 1).next = Len(v) + 1
         THEN Ok(Some(ReadString(v, 1).val))
    ELSE Err

\* fn deserialize_type_field: the value is read as a serde_json::Value.
deserialize_type_field(v) ==
    IF ReadString(v, 1).ok /\ ReadString(v, 1).val = <<"Mod">> THEN "Mod"
    ELSE IF ReadString(v, 1).ok /\ ReadString(v, 1).val = <<"Lib">> THEN "Library"
    ELSE "Mod"

\* Deserialize of Option<Vec<(Uuid, ModDependency)>>.
StringToOptDeps(v) ==
    IF v = <<"null">> THEN Ok(None)
    ELSE IF string_to_objects(v).ok THEN Ok(Some(string_to_objects(v).val))
    ELSE Err

\* Deserialize of Option<Vec<String>>.
StringToOptTags(v) ==
    IF v = <<"null">> THEN Ok(None)
    ELSE IF StringToTags(v).ok THEN Ok(Some(StringToTags(v).val))
    ELSE Err

\* The derived Deserialize of Mod: members are matched by key, a key given
\* twice and a text without item_type are errors.
MembersToMod(ms) ==
    LET name         == StringToOptString(FieldText(ms, "name"))
        author       == StringToOptString(FieldText(ms, "author"))
        img_url      == StringToOptString(FieldText(ms, "img_url"))
        summary      == StringToOptString(FieldText(ms, "summary"))
        description  == StringToOptString(FieldText(ms, "description"))
        version      == StringToOptString(FieldText(ms, "version"))
        dependencies == StringToOptDeps(FieldText(ms, "dependencies"))
        tags         == StringToOptTags(FieldText(ms, "tags"))
    IN  IF \E i \in 1..Len(Fields) : Len(MemberValues(ms, Fields[i])) > 1 THEN Err
        ELSE IF MemberValues(ms, "item_type") = <<>> THEN Err
        ELSE IF ~ (name.ok /\ author.ok /\ img_url.ok /\ summary.ok /\ description.ok
                   /\ version.ok /\ dependencies.ok /\ tags.ok) THEN Err
        ELSE Ok([name |-> name.val, author |-> author.val, img_url |-> img_url.val,
                 summary |-> summary.val, description |-> description.val,
                 version |-> version.val,
                 item_type |-> deserialize_type_field(FieldText(ms, "item_type")),
                 dependencies |-> dependencies.val, tags |-> tags.val])

\* The Mod of a pair whose identifier u is read: the members from the
\* opening brace to the closing bracket of the pair.
ReadMod(t, i, u) ==
    The({IF ~ ms.ok \/ ~ ReadLit(t, ms.next, <<"]">>)
         THEN [ok |-> FALSE, val |-> <<>>, next |-> i]
         ELSE The({IF ~ m.ok THEN [ok |-> FALSE, val |-> <<>>, next |-> i]
                   ELSE [ok |-> TRUE, val |-> <<HyphenatedValue(u.val), m.val>>,
                         next |-> ms.next + 1]
                   : m \in {MembersToMod(ms.val)}})
         : ms \in {ReadMembers(t, u.next + 2, <<>>)}})

\* Reads one (Uuid, Mod) pair that starts at token i.
ReadObject(t, i) ==
    The({IF ~ ReadLit(t, i, <<"[">>) \/ ~ u.ok \/ ~ HyphenatedOk(u.val)
            \/ ~ ReadLit(t, u.next, <<",", "{">>)
         THEN [ok |-> FALSE, val |-> <<>>, next |-> i]
         ELSE ReadMod(t, i, u)
         : u \in {ReadString(t, i + 1)}})

\* json::string_to_object into (Uuid, Mod): the pair must be the whole text.
string_to_object(t) ==
    The({IF r.ok /\ r.next = Len(t) + 1 THEN Ok(r.val) ELSE Err
         : r \in {ReadObject(t, 1)}})

RECURSIVE ReadObjects(_, _, _)
ReadObjects(t, i, acc) ==
    The({IF ~ r.ok THEN Err
         ELSE IF ReadLit(t, r.next, <<"]">>) /\ r.next = Len(t)
              THEN Ok(Append(acc, r.val))
         ELSE IF ReadLit(t, r.next, <<",">>)
              THEN ReadObjects(t, r.next + 1, Append(acc, r.val))
         ELSE Err
         : r \in {ReadObject(t, i)}})

\* json::string_to_objects into Vec<(Uuid, Mod)>.
string_to_mods(t) ==
    IF t = <<"[", "]">> THEN Ok(<<>>)
    ELSE IF ReadLit(t, 1, <<"[">>) THEN ReadObjects(t, 2, <<>>)
    ELSE Err

\* The lists written: none, one and two pairs.
JsonLists(u) ==
    {<<>>, << <<u, record>> >>, << <<u, record>>, <<u, record>> >>,
     << <<u, GenericMod>>, <<Nil, record>> >>}

\* let serialized = json::object_to_string((u, record)).unwrap();
JsonTo ==
    \E u \in Uuids :
        /\ last.op = "none"
        /\ last' = Call("object_to_string", u, TRUE, <<u, record>>,
                        Ok(object_to_string(<<u, record>>)))
        /\ UNCHANGED <<index, bags, order, record, unflat, callers, pages>>

\* let deserialized: (Uuid, Mod) = json::string_to_object(&serialized);
JsonFrom ==
    /\ last.op = "object_to_string"
    /\ last' = Call("string_to_object", last.uuid, TRUE, last.arg,
                    string_to_object(last.result.val))
    /\ UNCHANGED <<index, bags, order, record, unflat, callers, pages>>

\* let serialized = json::objects_to_string(data_vec).unwrap();
JsonsTo ==
    \E u \in Uuids : \E objects \in JsonLists(u) :
        /\ last.op = "none"
        /\ last' = Call("objects_to_string", u, TRUE, objects,
                        Ok(mods_to_string(objects)))
        /\ UNCHANGED <<index, bags, order, record, unflat, callers, pages>>

\* let deserialized: Vec<(Uuid, Mod)> = json::string_to_objects(&serialized);
JsonsFrom ==
    /\ last.op = "objects_to_string"
    /\ last' = Call("string_to_objects", last.uuid, TRUE, last.arg,
                    string_to_mods(last.result.val))
    /\ UNCHANGED <<index, bags, order, record, unflat, callers, pages>>

NextJson == JsonTo \/ JsonFrom \/ JsonsTo \/ JsonsFrom

SpecJson == InitFlat /\ [][NextJson]_vars

\* C17: a (Uuid, Mod) pair read back from the JSON text written for it is
\* the pair itself, for either item type and any mix of present and absent
\* optional fields; likewise a list of pairs.
C17_JsonRoundTrip ==
    (last.op \in {"string_to_object", "string_to_objects"}) =>
        /\ last.result.ok
        /\ last.result.val = last.arg

--------------------------------------------------------------------------
(* The ends of the index (SpecEnds): one caller inserts, removes and       *)
(* rescores entries and asks for the first and the last identifier.        *)

EndsInsert ==
    \E uuid \in Uuids :
        insert_object_into_database(ConMap, Some(uuid)) /\ UNCHANGED seqFrame

EndsRemove ==
    \E uuid \in Uuids :
        remove_object_from_database(ConNames, uuid) /\ UNCHANGED seqFrame

EndsScore ==
    \E increment \in Increments, uuid \in Uuids :
        change_object_score(increment, uuid) /\ UNCHANGED seqFrame

EndsFirst == grab_first_object /\ UNCHANGED seqFrame

EndsLast == grab_last_object /\ UNCHANGED seqFrame

NextEnds == EndsInsert \/ EndsRemove \/ EndsScore \/ EndsFirst \/ EndsLast

SpecEnds == Init /\ [][NextEnds]_vars

\* C19: first() and last() return no error; on an index with no entry both
\* return the nil identifier, and on an index with entries first() returns
\* an identifier of the index no entry has a lower rank than, last() one no
\* entry has a higher rank than.
C19_EndsOfIndex ==
    (last.op \in {"first", "last"}) =>
        /\ last.result.ok
        /\ index = EmptyIndex => last.result.val = Nil
        /\ index # EmptyIndex =>
              /\ InIndex(last.result.val)
              /\ \A m \in DOMAIN index :
                    IF last.op = "first"
                    THEN index[ToSimple(last.result.val)] <= index[m]
                    ELSE index[ToSimple(last.result.val)] >= index[m]

\* first() has answered on an index of two entries of different ranks,
\* the nil identifier holding the higher one.
C19_Witness ==
    /\ last.op = "first"
    /\ ZCARD(index) = 2
    /\ InIndex(Nil)
    /\ \E m \in DOMAIN index : index[m] < index[ToSimple(Nil)]

--------------------------------------------------------------------------
(* The item_type token (SpecType): a record is flattened, the caller may   *)
(* hand the list back with another item_type payload, and a Mod is built.  *)

\* Payloads found in the item_type field: the two tokens the mapper writes
\* and others.
TypeTokens ==
    {<<"mod">>, <<"lib">>, <<"Mod">>, <<"Lib">>, <<"Library">>, <<"LIB">>,
     <<"N/A">>, <<>>}

\* Position of item_type in the flattened list.
TypeIndex == CHOOSE i \in 1..Len(Fields) : Fields[i] = "item_type"

\* The caller hands over the list with another item_type payload.
FlatToken ==
    \E payload \in TypeTokens :
        /\ last.op = "flatten"
        /\ ~ unflat.done
        /\ last' = Call("token", Nil, TRUE,
                        [list |-> last.result.val, field |-> "item_type"],
                        Ok(WithPayload(last.result.val, "item_type", payload)))
        /\ UNCHANGED <<index, bags, order, record, unflat, callers, pages>>

NextType == FlatInto \/ FlatToken \/ FlatFrom

SpecType == InitFlat /\ [][NextType]_vars

\* C20: the flattened item_type payload is "mod" for Mod and "lib" for
\* Library, and the Mod built from the flattened list has the item type of
\* the record; a Mod is built without failure from any item_type payload,
\* with Library for "lib" and Mod for every other payload.
C20_ItemTypeTokens ==
    /\ (last.op = "flatten") =>
          last.result.val[TypeIndex] =
              <<"item_type", IF record.item_type = "Mod" THEN <<"mod">> ELSE <<"lib">> >>
    /\ (unflat.done /\ last.op = "flatten") =>
          /\ ~ unflat.panic
          /\ unflat.mod.item_type = record.item_type
    /\ (unflat.done /\ last.op = "token") =>
          /\ ~ unflat.panic
          /\ unflat.mod.item_type =
                (IF last.result.val[TypeIndex][2] = <<"lib">> THEN "Library" ELSE "Mod")

\* A Mod has been built from the list of a Library whose item_type payload
\* was replaced by a token the mapper does not write.
C20_Witness ==
    /\ unflat.done
    /\ last.op = "token"
    /\ record.item_type = "Library"
    /\ last.result.val[TypeIndex][2] = <<"Library">>

--------------------------------------------------------------------------
(* Removing what is not there.                                             *)

\* C21: remove(id) for an identifier that has no entry in the index and no
\* field in its bag returns success and leaves the index and every bag as
\* they were.
C21_RemoveAbsentIsNoOp ==
    [][\A uuid \in Uuids :
          (/\ ~ InIndex(uuid)
           /\ ~ HasBag(uuid)
           /\ remove_object_from_database(ConNames, uuid))
             => /\ last'.result = Ok(<<>>)
                /\ index' = index
                /\ bags' = bags]_vars

\* A remove of an identifier that was not in the index has returned while
\* the index holds another identifier.
C21_Witness ==
    /\ last.op = "remove"
    /\ ~ last.had
    /\ ~ InIndex(last.uuid)
    /\ ~ HasBag(last.uuid)
    /\ index # EmptyIndex

--------------------------------------------------------------------------
(* The rank race of concurrent inserts (SpecRace): every caller inserts    *)
(* one record into the empty store, each under an identifier of its own,   *)
(* and the server executes the commands of their pipelines in any          *)
(* interleaving.                                                           *)

\* The identifiers callers have chosen so far.
Taken == {callers[q].uuid : q \in {r \in Procs : callers[r].op # "idle"}}

\* insert_object_into_database up to pipeline.query: ZCARD read, the
\* pipeline built.
RaceInsert ==
    \E p \in Procs, uuid \in Uuids \ Taken :
        /\ callers[p].op = "idle"
        /\ callers' = [callers EXCEPT ![p] =
                          [op |-> "insert", uuid |-> uuid, map |-> FromMod(DefaultMod),
                           pend |-> InsertPipeline(ZCARD(index), FromMod(DefaultMod), uuid)]]
        /\ UNCHANGED <<index, bags, last, order, record, unflat, pages>>

\* The server executes the next command of a caller's pipeline.
RaceServe == \E p \in Procs : ConServe(p)

\* pipeline.query returns and insert returns Ok(gen_key).
RaceReturn ==
    \E p \in Procs :
        /\ callers[p].op = "insert"
        /\ callers[p].pend = <<>>
        /\ callers' = [callers EXCEPT ![p].op = "done"]
        /\ UNCHANGED <<index, bags, last, order, record, unflat, pages>>

NextRace == RaceInsert \/ RaceServe \/ RaceReturn

SpecRace == Init /\ [][NextRace]_vars

\* C22: the rank an insert writes is the one it computed from the
\* cardinality it read when the call began, whatever the index holds when
\* the server executes its ZADD: the ZADD of caller p leaves p's identifier
\* in the index with the score the pipeline carries, and every other entry
\* as it was.
C22_RankIsTheOneRead ==
    [][\A p \in Procs :
          (/\ callers[p].op = "insert"
           /\ callers[p].pend # <<>>
           /\ Head(callers[p].pend).cmd = "ZADD"
           /\ ConServe(p))
             => LET c == Head(callers[p].pend)
                IN  /\ c.member \in DOMAIN index'
                    /\ index'[c.member] = c.score
                    /\ \A m \in DOMAIN index \ {c.member} :
                          m \in DOMAIN index' /\ index'[m] = index[m]]_vars

\* Two callers have inserted distinct identifiers, both read the
\* cardinality 0, and both entries are in the index with rank 1.
C22_Witness ==
    \E p, q \in Procs :
        /\ p # q
        /\ callers[p].op = "done"
        /\ callers[q].op = "done"
        /\ callers[p].uuid # callers[q].uuid
        /\ InIndex(callers[p].uuid)
        /\ InIndex(callers[q].uuid)
        /\ index[ToSimple(callers[p].uuid)] = 1
        /\ index[ToSimple(callers[q].uuid)] = 1

\* The callers whose insert has returned.
Done == {p \in Procs : callers[p].op = "done"}

\* C23: once concurrent inserts of distinct identifiers have returned, each
\* identifier is in the index and its bag holds every inserted field with
\* its payload; when all callers have returned, count() has grown from 0 to
\* the number of callers.
C23_RaceLosesNothing ==
    /\ \A p \in Done :
          WrittenUnder(index, bags, callers[p].map, ToSimple(callers[p].uuid))
    /\ ZCARD(index) >= Cardinality(Done)
    /\ Done = Procs => ZCARD(index) = Cardinality(Procs)

\* All callers have returned and two of the entries share a rank.
C23_Witness ==
    /\ Done = Procs
    /\ \E m, n \in DOMAIN index : m # n /\ index[m] = index[n]

--------------------------------------------------------------------------
(* Successive inserts (SpecSeq): one caller inserts records into the empty *)
(* store, each under an identifier not inserted before, and reads the      *)
(* ends of the index, the scores and the count in between.                 *)

SeqFirst == grab_first_object /\ UNCHANGED seqFrame

SeqLast == grab_last_object /\ UNCHANGED seqFrame

SeqScore == \E uuid \in OrdUuids : object_score(uuid) /\ UNCHANGED seqFrame

NextSeq == OrdInsert \/ SeqFirst \/ SeqLast \/ SeqScore \/ Count

SpecSeq == InitOrd /\ [][NextSeq]_vars

\* C24: after k successive inserts of distinct identifiers into the empty
\* index the i-th inserted identifier has rank i, which is the count read
\* at the start of its insert plus 1; range(0,0) and first() give the first
\* inserted identifier, range(-1,-1) and last() the most recently inserted
\* one, and score() the rank.
C24_SuccessiveRanks ==
    /\ DOMAIN index = {ToSimple(order[i]) : i \in 1..Len(order)}
    /\ \A i \in 1..Len(order) : index[ToSimple(order[i])] = i
    /\ last.op = "insert" => index[ToSimple(last.uuid)] = last.count0 + 1
    /\ order # <<>> =>
          /\ ZRANGE(index, 0, 0) = <<ToSimple(order[1])>>
          /\ ZRANGE(index, -1, -1) = <<ToSimple(order[Len(order)])>>
          /\ last.op = "first" => last.result = Ok(order[1])
          /\ last.op = "last" => last.result = Ok(order[Len(order)])
          /\ \A i \in 1..Len(order) :
                (last.op = "score" /\ last.uuid = order[i]) => last.result = Ok(i)

\* last() has answered after three successive inserts, the nil identifier
\* having been inserted second.
C24_Witness ==
    /\ Len(order) = 3
    /\ order[2] = Nil
    /\ last.op = "last"

--------------------------------------------------------------------------
(* Round trips (SpecTrips): one caller makes every kind of call; the       *)
(* batches a call submits are listed from its code.                        *)

\* The round trips of the loop of request_group_of_objects over the ZRANGE
\* output: per identifier the HGET pipeline of retrieve and, when retrieve
\* succeeds, the ZRANGE of grab_last_object.
RECURSIVE PageLoopTrips(_, _, _)
PageLoopTrips(st, field_map, output) ==
    IF output = <<>> THEN <<>>
    ELSE IF ~ ParseOk(Head(output)) THEN <<>>
    ELSE IF ~ RetrieveResult(st, field_map, ParseStr(Head(output))).ok
         THEN <<RetrievePipeline(field_map, ParseStr(Head(output)))>>
    ELSE <<RetrievePipeline(field_map, ParseStr(Head(output))),
           <<Cmd("ZRANGE", "", 0, "", <<>>)>> >>
           \o PageLoopTrips(st, field_map, Tail(output))

\* The batches the call submits to the server, one after the other, on the
\* store st; names is the field list a page call passes on to retrieve.
RoundTrips(call, st, names) ==
    CASE call.op = "insert" ->
           << <<Cmd("ZCARD", "", 0, "", <<>>)>>,
              InsertPipeline(call.count0, call.arg, call.uuid) >>
      [] call.op = "remove" ->
           << <<Cmd("ZREM", ToSimple(call.uuid), 0, "", <<>>)>>,
              RemovePipeline(call.arg, call.uuid) >>
      [] call.op = "edit" -> <<EditPipeline(call.arg, call.uuid)>>
      [] call.op = "retrieve" -> <<RetrievePipeline(call.arg, call.uuid)>>
      [] call.op = "count" -> << <<Cmd("ZCARD", "", 0, "", <<>>)>> >>
      [] call.op \in {"first", "last"} -> << <<Cmd("ZRANGE", "", 0, "", <<>>)>> >>
      [] call.op = "page" ->
           << <<Cmd("ZRANGE", "", 0, "", <<>>)>> >>
             \o PageLoopTrips(st, names,
                              ZRANGE(st.index, PageSize * (call.arg - 1),
                                     (PageSize * call.arg) - 1))
      [] OTHER -> <<>>

TripsPage ==
    \E amount \in PageAmounts :
        request_group_of_objects(ConNames, amount) /\ UNCHANGED seqFrame

NextTrips ==
    \/ EndsInsert
    \/ EndsRemove
    \/ Edit
    \/ Retrieve
    \/ Count
    \/ EndsFirst
    \/ EndsLast
    \/ TripsPage

SpecTrips == Init /\ [][NextTrips]_vars

\* C25: every call of insert, remove, edit, retrieve, count, first, last
\* and page submits exactly one batch to the server.
C25_OneRoundTrip ==
    (last.op # "none") => Len(RoundTrips(last, Current, ConNames)) = 1

--------------------------------------------------------------------------
(* The window of a page (SpecPage).                                        *)

\* The identifiers at zero-based positions 8 * (n - 1) to 8 * n - 1 of the
\* index in ascending order, fewer when the index ends inside the window.
Positions(n) ==
    LET from == PageSize * (n - 1)
        to   == IF PageSize * n <= ZCARD(index) THEN PageSize * n ELSE ZCARD(index)
    IN  IF to <= from THEN <<>>
        ELSE [i \in 1..(to - from) |-> ParseStr(ZSorted(index)[from + i])]

\* The identifiers of the record entries of a page.
RecordIds(entries) ==
    [i \in 1..Len(DropSentinels(entries)) |-> DropSentinels(entries)[i][1]]

\* C26: page(n) for n >= 1 returns the identifiers at zero-based positions
\* 8 * (n - 1) to 8 * n - 1 of the index, in that order, which is ascending
\* in rank: at most 8 record entries, and at most one sentinel.
C26_PageWindow ==
    \A n \in 1..Len(pages) :
        /\ pages[n].ok
        /\ RecordIds(pages[n].val) = Positions(n)
        /\ \A i, j \in 1..Len(Positions(n)) :
              i < j => index[ToSimple(Positions(n)[i])] <= index[ToSimple(Positions(n)[j])]
        /\ Len(RecordIds(pages[n].val)) <= PageSize
        /\ SentinelCount(pages[n].val) <= 1

--------------------------------------------------------------------------
(* Rescoring (SpecEnds).                                                   *)

--------------------------------------------------------------------------
(* Order inside a batch (SpecBatch): every caller inserts a record under   *)
(* an identifier of its own and then edits it, with field lists that name  *)
(* a field twice; the server executes the commands of the pipelines one by *)
(* one, those of different callers in any interleaving.                    *)

\* A field list that names a field twice.
DupMap == << <<"name", <<"x">>>>, <<"author", <<"N/A">>>>, <<"name", <<"y">>>> >>

\* insert_object_into_database up to pipeline.query.
BatchInsert ==
    \E p \in Procs, uuid \in Uuids \ Taken :
        /\ callers[p].op = "idle"
        /\ callers' = [callers EXCEPT ![p] =
                          [op |-> "insert", uuid |-> uuid, map |-> DupMap,
                           pend |-> InsertPipeline(ZCARD(index), DupMap, uuid)]]
        /\ UNCHANGED <<index, bags, last, order, record, unflat, pages>>

\* edit_object_from_database up to pipeline.query, on the identifier the
\* caller inserted.
BatchEdit ==
    \E p \in Procs, field_map \in EditMaps :
        /\ callers[p].op = "done"
        /\ callers' = [callers EXCEPT ![p] =
                          [op |-> "edit", uuid |-> callers[p].uuid, map |-> field_map,
                           pend |-> EditPipeline(field_map, callers[p].uuid)]]
        /\ UNCHANGED <<index, bags, last, order, record, unflat, pages>>

\* pipeline.query returns and the call returns.
BatchReturn ==
    \E p \in Procs :
        /\ callers[p].op \in {"insert", "edit"}
        /\ callers[p].pend = <<>>
        /\ callers' = [callers EXCEPT ![p].op = "done"]
        /\ UNCHANGED <<index, bags, last, order, record, unflat, pages>>

NextBatch == BatchInsert \/ BatchEdit \/ RaceServe \/ BatchReturn

SpecBatch == Init /\ [][NextBatch]_vars

\* C28: while inserts and edits run concurrently, an identifier whose bag
\* holds a field is in the index (the ZADD of an insert is executed before
\* its field writes); and once an insert or an edit has returned, every
\* field its list names holds the payload listed last for it.
C28_BatchOrder ==
    /\ \A uuid \in Uuids : HasBag(uuid) => InIndex(uuid)
    /\ \A p \in Done :
          \A i \in 1..Len(callers[p].map) :
              (\A j \in (i + 1)..Len(callers[p].map) :
                  callers[p].map[j][1] # callers[p].map[i][1])
                 => HGET(bags, ToSimple(callers[p].uuid), callers[p].map[i][1])
                      = [nil |-> FALSE, data |-> callers[p].map[i][2]]

\* One caller is between the ZADD and the field writes of its insert while
\* another has returned from an edit that named a field twice.
C28_Witness ==
    \E p, q \in Procs :
        /\ callers[p].op = "insert"
        /\ InIndex(callers[p].uuid)
        /\ ~ HasBag(callers[p].uuid)
        /\ callers[q].op = "done"
        /\ callers[q].map \in EditMaps

--------------------------------------------------------------------------
(* What changes the members of the index (SpecFrame): one caller makes     *)
(* every kind of call, with identifiers the index holds and others.        *)

NextFrame == NextTrips \/ EndsScore \/ SeqScore

SpecFrame == Init /\ [][NextFrame]_vars

--------------------------------------------------------------------------
(* A page read while another writes (SpecPaging): a caller inserts and     *)
(* removes as in SpecC while a reader runs request_group_of_objects round  *)
(* trip by round trip.  order holds the identifiers of the window still to *)
(* be visited, pages the vector built so far, last.op the reader's step.   *)

\* request_group_of_objects up to the loop: the ZRANGE of the window.
PagingStart ==
    \E amount \in {1} :
        LET output == ZRANGE(index, PageSize * (amount - 1), (PageSize * amount) - 1)
        IN  /\ last.op \notin {"page_retrieve", "page_last"}
            /\ order' = [i \in 1..Len(output) |-> ParseStr(output[i])]
            /\ pages' = <<>>
            /\ last' = Call(IF output = <<>> THEN "page" ELSE "page_retrieve",
                            Nil, TRUE, amount, Ok(<<>>))
            /\ UNCHANGED <<index, bags, record, unflat, callers>>

\* The loop body up to vector.push((uuid, object)): retrieve, whose error
\* ends the call.
PagingRetrieve ==
    LET object == RetrieveResult(Current, ConNames, Head(order))
    IN  /\ last.op = "page_retrieve"
        /\ IF object.ok
           THEN /\ pages' = Append(pages, <<Head(order), object.val>>)
                /\ order' = order
                /\ last' = Call("page_last", Nil, TRUE, last.arg, Ok(<<>>))
           ELSE /\ pages' = <<>>
                /\ order' = <<>>
                /\ last' = Call("page", Nil, TRUE, last.arg, Err)
        /\ UNCHANGED <<index, bags, record, unflat, callers>>

\* The rest of the loop body: grab_last_object and the sentinel; after the
\* last identifier the call returns the vector.
PagingLast ==
    LET lst    == LastResult(Current)
        vector == IF Head(order) = lst.val THEN Append(pages, Sentinel) ELSE pages
    IN  /\ last.op = "page_last"
        /\ pages' = vector
        /\ order' = Tail(order)
        /\ last' = IF Tail(order) = <<>>
                   THEN Call("page", Nil, TRUE, last.arg, Ok(vector))
                   ELSE Call("page_retrieve", Nil, TRUE, last.arg, Ok(<<>>))
        /\ UNCHANGED <<index, bags, record, unflat, callers>>

\* The writer: one caller taking the steps of SpecC, which leave the
\* reader's state alone.
PagingWrite ==
    \/ ConInsertCall(FailCaller)
    \/ ConRemoveCall(FailCaller)
    \/ ConServe(FailCaller)
    \/ ConReturn(FailCaller)

NextPaging == PagingStart \/ PagingRetrieve \/ PagingLast \/ PagingWrite

SpecPaging == Init /\ [][NextPaging]_vars

\* C30: the vector a page call returns, whatever other callers insert or
\* remove while it runs, holds at most one sentinel, and the sentinel is
\* its final entry.
C30_SentinelLastUnderWrites ==
    (last.op = "page" /\ last.result.ok) =>
        /\ SentinelCount(last.result.val) <= 1
        /\ \A i \in 1..(Len(last.result.val) - 1) : last.result.val[i] # Sentinel

--------------------------------------------------------------------------
\* C31: with every identifier insert accepts, the nil identifier among them,
\* an entry of a page result that carries the nil identifier is the sentinel,
\* and first and last answer the nil identifier only on an empty index.
C31_NilIsNeverARecord ==
    /\ (last.op = "page" /\ last.result.ok) =>
          \A i \in 1..Len(last.result.val) :
              (last.result.val[i][1] = Nil) => (last.result.val[i] = Sentinel)
    /\ (last.op \in {"first", "last"} /\ last.result.ok /\ last.result.val = Nil) =>
          index = EmptyIndex

--------------------------------------------------------------------------
(* Pages counted from the end (SpecTail): request_group_of_objects with an *)
(* amount of 0 or -1 on the stores of SpecPage.                            *)

TailPage ==
    \E amount \in {-1, 0} :
        request_group_of_objects(Fields, amount) /\ UNCHANGED seqFrame

NextTail == PageInsert \/ TailPage

SpecTail == InitPage /\ [][NextTail]_vars

\* The identifiers a window of negative offsets covers: with n entries in
\* the index, the positions n + 8 * (amount - 1) (not below 0) to
\* n + 8 * amount - 1.
EndWindow(amount) ==
    LET n    == ZCARD(index)
        low  == n + PageSize * (amount - 1)
        from == IF low < 0 THEN 0 ELSE low
        to   == n + PageSize * amount
    IN  IF to <= from THEN <<>>
        ELSE [i \in 1..(to - from) |-> ParseStr(ZSorted(index)[from + i])]

\* C32: page(n) with n <= 0 is not rejected: on a non-empty index it
\* returns the identifiers its negative offsets cover, counted from the end,
\* in rank order; page(0) returns the last up-to-8 identifiers followed by
\* the sentinel, neither an empty result nor an error.
C32_PageZeroIsTheTail ==
    (last.op = "page" /\ last.arg <= 0 /\ index # EmptyIndex) =>
        /\ last.result.ok
        /\ RecordIds(last.result.val) = EndWindow(last.arg)
        /\ (last.arg = 0) =>
              /\ last.result.val # <<>>
              /\ Len(RecordIds(last.result.val)) <= PageSize
              /\ SentinelCount(last.result.val) = 1
              /\ last.result.val[Len(last.result.val)] = Sentinel

=============================================================================
